---- MODULE Spec2Model ----
(***************************************************************************)
(* Decision engine of plutarch.arc (src/src/plutarch/arc/engine.py):       *)
(* deep recycle valuation, quest hold set, sell / recycle classifiers and  *)
(* the greedy optimizer.                                                   *)
(*                                                                         *)
(* Strings are sequences of code points, dicts are functions whose DOMAIN  *)
(* is the key set, lists are sequences.                                    *)
(***************************************************************************)
EXTENDS Integers, Sequences, FiniteSets, TLC

VARIABLES
    items,      \* item catalog: item_id -> Item (value, recycles_into, name)
    table,      \* build_deep_recycle_table: the memo table being filled
    stack,      \* build_deep_recycle_table: active _resolve frames, outermost first
    pending,    \* build_deep_recycle_table: catalog ids the outer loop has not reached
    depth,      \* build_deep_recycle_table: nesting depth of the latest _resolve call
    stash,      \* stash snapshot: list of StashItem (item_id, name, quantity)
    recycle_table, \* the deep recycle table the caller passes to the analyzers
    quests,     \* quest catalog: quest id -> Quest
    params,     \* OptimizeParams
    target_query, \* find_recycle_sources: the name the caller asks for
    search,     \* find_recycle_sources: its locals while the search runs
    result,     \* what the operation named by pc returned
    pc          \* which operation runs / has returned

vars == <<items, table, stack, pending, depth, stash, recycle_table, quests,
          params, target_query, search, result, pc>>

\* the inputs of the operations, which no operation assigns
inputs == <<items, stash, recycle_table, quests, params, target_query>>

\* the state of build_deep_recycle_table
resolver == <<table, stack, pending, depth>>

\* find_recycle_sources is not running
NoSearch == <<>>

(***************************************************************************)
(* Bounds of the model                                                     *)
(***************************************************************************)
\* item ids a catalog, a recipe or a stash may mention
ItemIds == {"a", "b", "c"}

\* sell values of catalog items in the valuation model
TableValues == {1, 3}

\* quantities yielded by recycling one unit
Qtys == {1, 2}

\* most recycles_into entries in one catalog
MaxEdges == 3

\* the interpreter's limit on nested calls (sys.getrecursionlimit()), scaled
\* down: deeper than any acyclic catalog over ItemIds can nest
RecursionLimit == 4

(***************************************************************************)
(* Helpers                                                                 *)
(***************************************************************************)
Max(x, y) == IF x >= y THEN x ELSE y

Abs(x) == IF x >= 0 THEN x ELSE -x

EmptyDict == [k \in {} |-> 0]

\* dict with d[k] = v set (insert or overwrite)
DictSet(d, k, v) == (k :> v) @@ d

\* d.get(k, default)
DictGet(d, k, default) == IF k \in DOMAIN d THEN d[k] ELSE default

RECURSIVE SumOver(_, _)
\* sum of f[x] over the finite set S \subseteq DOMAIN f
SumOver(f, S) ==
    IF S = {} THEN 0
    ELSE LET x == CHOOSE y \in S : TRUE
         IN  f[x] + SumOver(f, S \ {x})

(***************************************************************************)
(* build_deep_recycle_table                                                *)
(***************************************************************************)
\* RecipeMap: material id -> quantity
RecipeMaps == UNION {[M -> Qtys] : M \in SUBSET ItemIds}

NoName == EmptyDict

EdgeCount(cat) == SumOver([i \in DOMAIN cat |-> Cardinality(DOMAIN cat[i].recycles_into)],
                          DOMAIN cat)

\* catalogs of the valuation model: any key set, any recipes (dangling
\* material ids, self loops and cycles included)
TableCatalogs ==
    {cat \in UNION {[D -> [value : TableValues, recycles_into : RecipeMaps, name : {NoName}]]
                      : D \in SUBSET ItemIds} :
        EdgeCount(cat) <= MaxEdges}

\* line 45: `not item or not item.recycles_into`
IsBase(item_id) ==
    \/ item_id \notin DOMAIN items
    \/ DOMAIN items[item_id].recycles_into = {}

\* line 57: `if not mat: continue`
MatKnown(mat_id) == mat_id \in DOMAIN items

\* mutant of MatValue: the deeper value is used even when selling pays more
MatValueDeepOnly(mat, mat_deep) == mat_deep

\* mutant of MatValue: the lower of the two values is used
MatValueMin(mat, mat_deep) == IF mat.value <= mat_deep THEN mat.value ELSE mat_deep

\* line 61: use whichever is higher, selling the material or recycling it further
MatValue(mat, mat_deep) == Max(mat.value, mat_deep)

\* mutant of AddMaterial: the total is replaced, not added to
AddMaterialOverwrites(total, caller_id, mat_id, mat_deep) ==
    MatValue(items[mat_id], mat_deep) * items[caller_id].recycles_into[mat_id]

\* line 62: total += mat_value * mat_qty, in the frame that iterates over the
\* materials of caller_id, for the material mat_id resolved to mat_deep
AddMaterial(total, caller_id, mat_id, mat_deep) ==
    total + MatValue(items[mat_id], mat_deep) * items[caller_id].recycles_into[mat_id]

\* mutant of Memoize: a value of 0 is not stored
MemoizeNonZero(t, item_id, v) == IF v = 0 THEN t ELSE DictSet(t, item_id, v)

\* lines 48 and 64: table[item_id] = ...
Memoize(t, item_id, v) == DictSet(t, item_id, v)

Top == stack[Len(stack)]

\* the ids the running code may pass to _resolve next: the outer loop's next
\* catalog id (line 67), or a catalog-known material of the innermost frame
\* (lines 55-59); dicts iterate in insertion order, which is any order
CallTargets ==
    IF stack = <<>> THEN pending
    ELSE {m \in Top.todo : MatKnown(m)}

\* the caller's state once _resolve(m) has returned v at once
Returned(m, v) ==
    IF stack = <<>>
    THEN /\ pending' = pending \ {m}
         /\ stack' = stack
    ELSE /\ pending' = pending
         /\ stack' = [stack EXCEPT ![Len(stack)] =
                        [@ EXCEPT !.total = AddMaterial(@, Top.item_id, m, v),
                                  !.todo = @ \ {m}]]

\* lines 41-42: the id is memoized already
MemoHit(m) ==
    /\ pc = "resolving"
    /\ m \in CallTargets
    /\ Len(stack) < RecursionLimit
    /\ m \in DOMAIN table
    /\ Returned(m, table[m])
    /\ depth' = Len(stack) + 1
    /\ UNCHANGED <<inputs, search, result, table, pc>>

\* lines 44-49: base material (or unknown id): memoize 0
BaseCase(m) ==
    /\ pc = "resolving"
    /\ m \in CallTargets
    /\ Len(stack) < RecursionLimit
    /\ m \notin DOMAIN table
    /\ IsBase(m)
    /\ table' = Memoize(table, m, 0)
    /\ Returned(m, 0)
    /\ depth' = Len(stack) + 1
    /\ UNCHANGED <<inputs, search, result, pc>>

\* lines 54-55: a recyclable item: start summing over its materials
Descend(m) ==
    /\ pc = "resolving"
    /\ m \in CallTargets
    /\ Len(stack) < RecursionLimit
    /\ m \notin DOMAIN table
    /\ ~IsBase(m)
    /\ stack' = (IF stack = <<>> THEN stack
                 ELSE [stack EXCEPT ![Len(stack)].todo = @ \ {m}])
                \o <<[item_id |-> m, total |-> 0,
                      todo |-> DOMAIN items[m].recycles_into]>>
    /\ pending' = (IF stack = <<>> THEN pending \ {m} ELSE pending)
    /\ depth' = Len(stack) + 1
    /\ UNCHANGED <<inputs, search, result, table, pc>>

\* a call nested deeper than the interpreter allows raises RecursionError,
\* which nothing catches: build_deep_recycle_table fails
RecursionError(m) ==
    /\ pc = "resolving"
    /\ m \in CallTargets
    /\ Len(stack) >= RecursionLimit
    /\ pc' = "failed"
    /\ depth' = Len(stack) + 1
    /\ UNCHANGED <<inputs, search, result, table, stack, pending>>

\* mutant of SkipUnknown: looking up a material the catalog lacks raises
SkipUnknownRaises(m) ==
    /\ pc = "resolving"
    /\ stack # <<>>
    /\ m \in Top.todo
    /\ ~MatKnown(m)
    /\ pc' = "failed"
    /\ UNCHANGED <<inputs, search, result, table, stack, pending, depth>>

\* lines 56-58: a material that is not in the catalog is skipped
SkipUnknown(m) ==
    /\ pc = "resolving"
    /\ stack # <<>>
    /\ m \in Top.todo
    /\ ~MatKnown(m)
    /\ stack' = [stack EXCEPT ![Len(stack)].todo = @ \ {m}]
    /\ UNCHANGED <<inputs, search, result, table, pending, depth, pc>>

\* lines 64-65: all materials summed: memoize and return to the caller
Complete ==
    /\ pc = "resolving"
    /\ stack # <<>>
    /\ Top.todo = {}
    /\ table' = Memoize(table, Top.item_id, Top.total)
    /\ LET rest == SubSeq(stack, 1, Len(stack) - 1)
       IN  stack' = (IF rest = <<>> THEN rest
                     ELSE [rest EXCEPT ![Len(rest)].total =
                             AddMaterial(@, rest[Len(rest)].item_id,
                                         Top.item_id, Top.total)])
    /\ UNCHANGED <<inputs, search, result, pending, depth, pc>>

\* line 70: return table
ReturnTable ==
    /\ pc = "resolving"
    /\ stack = <<>>
    /\ pending = {}
    /\ pc' = "done"
    /\ UNCHANGED <<inputs, search, result, table, stack, pending, depth>>

\* OptimizeParams(): the dataclass defaults (models.py lines 434-437)
DefaultParams ==
    [quest_aware |-> TRUE, min_profit_threshold |-> 0,
     include_hideout |-> FALSE, include_projects |-> FALSE]

\* lines 38 and 67: an empty table, the outer loop before its first item
ResolverStart ==
    /\ table = EmptyDict
    /\ stack = <<>>
    /\ pending = DOMAIN items
    /\ depth = 0

InitTable ==
    /\ items \in TableCatalogs
    /\ ResolverStart
    /\ search = NoSearch
    /\ stash = <<>>
    /\ recycle_table = EmptyDict
    /\ quests = EmptyDict
    /\ params = DefaultParams
    /\ target_query = <<>>
    /\ result = EmptyDict
    /\ pc = "resolving"

NextTable ==
    \/ \E m \in ItemIds : MemoHit(m)
    \/ \E m \in ItemIds : BaseCase(m)
    \/ \E m \in ItemIds : Descend(m)
    \/ \E m \in ItemIds : RecursionError(m)
    \/ \E m \in ItemIds : SkipUnknown(m)
    \/ Complete
    \/ ReturnTable

SpecTable == InitTable /\ [][NextTable]_vars

(***************************************************************************)
(* build_deep_recycle_table called twice on the same catalog               *)
(***************************************************************************)
\* the catalogs of the valuation model with fewer than MaxEdges recipe entries
TwiceCatalogs == {cat \in TableCatalogs : EdgeCount(cat) < MaxEdges}

\* the caller keeps the table the first call returned and calls again: the
\* second call starts from a fresh table (line 38) and iterates in an order
\* of its own
CallAgain ==
    /\ pc = "done"
    /\ result = <<>>
    /\ result' = <<table>>
    /\ table' = EmptyDict
    /\ stack' = <<>>
    /\ pending' = DOMAIN items
    /\ depth' = 0
    /\ pc' = "resolving"
    /\ UNCHANGED <<inputs, search>>

InitTwice ==
    /\ items \in TwiceCatalogs
    /\ ResolverStart
    /\ search = NoSearch
    /\ stash = <<>>
    /\ recycle_table = EmptyDict
    /\ quests = EmptyDict
    /\ params = DefaultParams
    /\ target_query = <<>>
    /\ result = <<>>
    /\ pc = "resolving"

NextTwice ==
    \/ NextTable
    \/ CallAgain

SpecTwice == InitTwice /\ [][NextTwice]_vars

(***************************************************************************)
(* Strings and lists                                                       *)
(***************************************************************************)
\* str.lower() on ASCII text: "A".."Z" (65..90) become "a".."z"
Lower(s) == [k \in 1..Len(s) |-> IF s[k] \in 65..90 THEN s[k] + 32 ELSE s[k]]

\* Python's `needle in text` on strings; the empty string is in every string
IsSubstring(needle, text) ==
    \E k \in 0..(Len(text) - Len(needle)) :
        SubSeq(text, k + 1, k + Len(needle)) = needle

\* Python's s < t on strings: lexicographic by code point
StrLess(s, t) ==
    \E k \in 1..(Len(t)) :
        /\ k <= Len(s) + 1
        /\ \A j \in 1..(k - 1) : s[j] = t[j]
        /\ (k = Len(s) + 1 \/ s[k] < t[k])

\* list.sort(): a stable sort; <<i, j>> \in before says s[i]'s key sorts
\* strictly before s[j]'s (a smaller key, or a larger one under reverse=True);
\* items with equal keys keep their order
StableSort(s, before) ==
    LET n == Len(s)
        rank(i) == 1 + Cardinality({j \in 1..n :
                        \/ <<j, i>> \in before
                        \/ (<<i, j>> \notin before /\ j < i)})
    IN  [p \in 1..n |-> s[CHOOSE i \in 1..n : rank(i) = p]]

\* the pairs of positions of s
Pairs(s) == (1..Len(s)) \X (1..Len(s))

(***************************************************************************)
(* _build_quest_hold_set                                                   *)
(***************************************************************************)
\* LocalizedString.get("en", default)
En(localized, default) == DictGet(localized, "en", default)

\* mutant of NameMatches: the empty name is not excluded
NameMatchesEmptyToo(item_name, objective_text) ==
    IsSubstring(item_name, objective_text)

\* line 226: `if item_name and item_name in objective_text`
NameMatches(item_name, objective_text) ==
    item_name # <<>> /\ IsSubstring(item_name, objective_text)

\* lines 221-227: the catalog ids whose lower-cased English name is in the
\* lower-cased English text of the objective
ObjectiveItems(objective, its) ==
    LET objective_text == Lower(En(objective, <<>>))
    IN  {item_id \in DOMAIN its :
            NameMatches(Lower(En(its[item_id].name, <<>>)), objective_text)}

\* lines 212-213 and 216-217: the ids of a list of ItemQuantity
ItemQuantityIds(item_qtys) == {item_qtys[k].item_id : k \in 1..Len(item_qtys)}

\* lines 208-229
_build_quest_hold_set(qs, its) ==
    UNION {ItemQuantityIds(qs[q].granted_item_ids)
           \cup ItemQuantityIds(qs[q].reward_item_ids)
           \cup UNION {ObjectiveItems(qs[q].objectives[k], its)
                        : k \in 1..Len(qs[q].objectives)}
           : q \in DOMAIN qs}

(***************************************************************************)
(* _build_recommendation, analyze_sell, analyze_recycle                    *)
(***************************************************************************)
\* lines 90, 136, 182, 284: item.value * stash_item.quantity
SellValue(stash_item, item) == item.value * stash_item.quantity

\* mutant of RecycleValue: the per-unit value, not multiplied by the quantity
RecycleValuePerUnit(stash_item, rtable) ==
    DictGet(rtable, stash_item.item_id, 0)

\* lines 91, 137, 183, 285: recycle_table.get(item_id, 0) * stash_item.quantity
RecycleValue(stash_item, rtable) ==
    DictGet(rtable, stash_item.item_id, 0) * stash_item.quantity

\* mutant of _build_recommendation: the margin is recycle_value - sell_value
RecommendationMarginReversed(stash_item, item, rtable, action) ==
    [item_id |-> stash_item.item_id,
     name |-> En(item.name, stash_item.name),
     quantity |-> stash_item.quantity,
     sell_value |-> SellValue(stash_item, item),
     recycle_value |-> RecycleValue(stash_item, rtable),
     margin |-> RecycleValue(stash_item, rtable) - SellValue(stash_item, item),
     action |-> action]

\* lines 90-102
_build_recommendation(stash_item, item, rtable, action) ==
    [item_id |-> stash_item.item_id,
     name |-> En(item.name, stash_item.name),
     quantity |-> stash_item.quantity,
     sell_value |-> SellValue(stash_item, item),
     recycle_value |-> RecycleValue(stash_item, rtable),
     margin |-> SellValue(stash_item, item) - RecycleValue(stash_item, rtable),
     action |-> action]

\* mutant of SellKeeps: a tie counts as selling being better
SellKeepsTies(stash_item, its, rtable) ==
    /\ stash_item.item_id \in DOMAIN its
    /\ its[stash_item.item_id].value # 0
    /\ its[stash_item.item_id].value * stash_item.quantity
          >= DictGet(rtable, stash_item.item_id, 0) * stash_item.quantity

\* lines 127-140: the stash entries analyze_sell keeps
SellKeeps(stash_item, its, rtable) ==
    /\ stash_item.item_id \in DOMAIN its
    /\ its[stash_item.item_id].value # 0
    /\ SellValue(stash_item, its[stash_item.item_id]) > RecycleValue(stash_item, rtable)

\* mutant of SortBySellValueDesc: the sort is ascending
SortBySellValueAsc(recs) ==
    StableSort(recs, {p \in Pairs(recs) : recs[p[1]].sell_value < recs[p[2]].sell_value})

\* lines 146 and 308: sort(key=sell_value, reverse=True)
SortBySellValueDesc(recs) ==
    StableSort(recs, {p \in Pairs(recs) : recs[p[1]].sell_value > recs[p[2]].sell_value})

\* mutant of SortByMarginAsc: the sort is descending
SortByMarginDesc(recs) ==
    StableSort(recs, {p \in Pairs(recs) : recs[p[1]].margin > recs[p[2]].margin})

\* lines 192 and 309: sort(key=margin)
SortByMarginAsc(recs) ==
    StableSort(recs, {p \in Pairs(recs) : recs[p[1]].margin < recs[p[2]].margin})

\* line 310: sort(key=name)
SortByName(recs) ==
    StableSort(recs, {p \in Pairs(recs) : StrLess(recs[p[1]].name, recs[p[2]].name)})

\* lines 141-143 and 187-189: the rows, in stash order, of the kept entries
RowsOf(kept, its, rtable, action) ==
    [k \in 1..Len(kept) |->
        _build_recommendation(kept[k], its[kept[k].item_id], rtable, action)]

\* lines 124-147
analyze_sell(st, its, rtable) ==
    LET Keep(stash_item) == SellKeeps(stash_item, its, rtable)
    IN  SortBySellValueDesc(RowsOf(SelectSeq(st, Keep), its, rtable, "sell"))

\* mutant of RecycleKeeps: an item without a recipe is kept as well
RecycleKeepsNoRecipe(stash_item, its, rtable) ==
    /\ stash_item.item_id \in DOMAIN its
    /\ RecycleValue(stash_item, rtable) > SellValue(stash_item, its[stash_item.item_id])

\* lines 173-186: the stash entries analyze_recycle keeps
RecycleKeeps(stash_item, its, rtable) ==
    /\ stash_item.item_id \in DOMAIN its
    /\ DOMAIN its[stash_item.item_id].recycles_into # {}
    /\ RecycleValue(stash_item, rtable) > SellValue(stash_item, its[stash_item.item_id])

\* lines 170-193
analyze_recycle(st, its, rtable) ==
    LET Keep(stash_item) == RecycleKeeps(stash_item, its, rtable)
    IN  SortByMarginAsc(RowsOf(SelectSeq(st, Keep), its, rtable, "recycle"))

(***************************************************************************)
(* analyze_optimize                                                        *)
(***************************************************************************)
\* mutant of HoldSetFor: the hold set is built whatever quest_aware says
HoldSetAlways(qs, its, ps) == _build_quest_hold_set(qs, its)

\* mutant of HoldSetFor: include_hideout holds every catalog item
HoldSetWithHideout(qs, its, ps) ==
    IF ps.quest_aware
    THEN _build_quest_hold_set(qs, its) \cup (IF ps.include_hideout THEN DOMAIN its ELSE {})
    ELSE {}

\* lines 266-268: the hold set is built only when params.quest_aware
HoldSetFor(qs, its, ps) ==
    IF ps.quest_aware THEN _build_quest_hold_set(qs, its) ELSE {}

\* mutant of BelowThreshold: a margin equal to the threshold is dropped too
BelowOrAtThreshold(margin, ps) == margin <= ps.min_profit_threshold

\* mutant of BelowThreshold: the threshold is never applied
ThresholdIgnored(margin, ps) == FALSE

\* line 289: `if margin < params.min_profit_threshold: continue`
BelowThreshold(margin, ps) == margin < ps.min_profit_threshold

\* mutant of Greedy: equal values go to recycle
GreedyTieRecycles(sell_value, recycle_value) ==
    IF sell_value > recycle_value THEN "sell" ELSE "recycle"

\* mutant of Greedy: the lower of the two values is picked
GreedyReversed(sell_value, recycle_value) ==
    IF sell_value > recycle_value THEN "recycle"
    ELSE IF recycle_value > sell_value THEN "sell"
    ELSE "sell"

\* lines 293-305: the greedy decision; equal values default to sell
Greedy(sell_value, recycle_value) ==
    IF sell_value > recycle_value THEN "sell"
    ELSE IF recycle_value > sell_value THEN "recycle"
    ELSE "sell"

\* mutant of Decide: the threshold is applied before the hold set is consulted
DecideThresholdFirst(stash_item, its, rtable, hold_set, ps) ==
    IF stash_item.item_id \notin DOMAIN its THEN "skip"
    ELSE LET sell_value == its[stash_item.item_id].value * stash_item.quantity
             recycle_value == DictGet(rtable, stash_item.item_id, 0) * stash_item.quantity
         IN  IF Abs(sell_value - recycle_value) < ps.min_profit_threshold THEN "drop"
             ELSE IF stash_item.item_id \in hold_set THEN "hold"
             ELSE IF sell_value >= recycle_value THEN "sell" ELSE "recycle"

\* lines 272-305: what the loop body does with one stash entry: "skip" it
\* (not in the catalog), "hold" it, "drop" it (below the threshold), or the
\* greedy decision
Decide(stash_item, its, rtable, hold_set, ps) ==
    IF stash_item.item_id \notin DOMAIN its THEN "skip"
    ELSE IF stash_item.item_id \in hold_set THEN "hold"
    ELSE LET sell_value == SellValue(stash_item, its[stash_item.item_id])
             recycle_value == RecycleValue(stash_item, rtable)
         IN  IF BelowThreshold(Abs(sell_value - recycle_value), ps) THEN "drop"
             ELSE Greedy(sell_value, recycle_value)

\* lines 259-263: the accumulators before the loop
OptimizeStart ==
    [sell_recs |-> <<>>, recycle_recs |-> <<>>, hold_recs |-> <<>>,
     total_sell_value |-> 0, total_recycle_value |-> 0]

\* mutant of OptimizeStep: the hold set is consulted before the catalog, so a
\* quest-held id the catalog lacks is held, with a row built from the stash
OptimizeStepHoldsUnknown(acc, stash_item, its, rtable, hold_set, ps) ==
    IF stash_item.item_id \notin DOMAIN its
    THEN IF stash_item.item_id \in hold_set
         THEN [acc EXCEPT !.hold_recs = Append(@,
                  [item_id |-> stash_item.item_id,
                   name |-> stash_item.name,
                   quantity |-> stash_item.quantity,
                   sell_value |-> 0,
                   recycle_value |-> RecycleValue(stash_item, rtable),
                   margin |-> 0 - RecycleValue(stash_item, rtable),
                   action |-> "hold"])]
         ELSE acc
    ELSE LET decision == Decide(stash_item, its, rtable, hold_set, ps)
             rec == _build_recommendation(stash_item, its[stash_item.item_id],
                                          rtable, decision)
         IN  CASE decision = "hold" ->
                     [acc EXCEPT !.hold_recs = Append(@, rec)]
               [] decision = "sell" ->
                     [acc EXCEPT !.sell_recs = Append(@, rec),
                                 !.total_sell_value = @ + rec.sell_value]
               [] decision = "recycle" ->
                     [acc EXCEPT !.recycle_recs = Append(@, rec),
                                 !.total_recycle_value = @ + rec.recycle_value]
               [] OTHER -> acc

\* mutant of OptimizeStep: a held stack adds its sell value to the total
OptimizeStepHoldAddsValue(acc, stash_item, its, rtable, hold_set, ps) ==
    LET decision == Decide(stash_item, its, rtable, hold_set, ps)
        rec == _build_recommendation(stash_item, its[stash_item.item_id], rtable, decision)
    IN  CASE decision = "hold" ->
                [acc EXCEPT !.hold_recs = Append(@, rec),
                            !.total_sell_value = @ + rec.sell_value]
          [] decision = "sell" ->
                [acc EXCEPT !.sell_recs = Append(@, rec),
                            !.total_sell_value = @ + rec.sell_value]
          [] decision = "recycle" ->
                [acc EXCEPT !.recycle_recs = Append(@, rec),
                            !.total_recycle_value = @ + rec.recycle_value]
          [] OTHER -> acc

\* lines 271-305: one iteration of the loop over the stash
OptimizeStep(acc, stash_item, its, rtable, hold_set, ps) ==
    LET decision == Decide(stash_item, its, rtable, hold_set, ps)
        rec == _build_recommendation(stash_item, its[stash_item.item_id], rtable, decision)
    IN  CASE decision = "hold" ->
                [acc EXCEPT !.hold_recs = Append(@, rec)]
          [] decision = "sell" ->
                [acc EXCEPT !.sell_recs = Append(@, rec),
                            !.total_sell_value = @ + rec.sell_value]
          [] decision = "recycle" ->
                [acc EXCEPT !.recycle_recs = Append(@, rec),
                            !.total_recycle_value = @ + rec.recycle_value]
          [] OTHER -> acc

RECURSIVE OptimizeLoop(_, _, _, _, _, _)
\* lines 271-305: the loop over the first n stash entries
OptimizeLoop(st, n, its, rtable, hold_set, ps) ==
    IF n = 0 THEN OptimizeStart
    ELSE OptimizeStep(OptimizeLoop(st, n - 1, its, rtable, hold_set, ps),
                      st[n], its, rtable, hold_set, ps)

\* mutant of analyze_optimize: total_hold_count is the size of the hold set
OptimizeCountsHoldSet(st, its, rtable, qs, ps) ==
    LET hold_set == HoldSetFor(qs, its, ps)
        acc == OptimizeLoop(st, Len(st), its, rtable, hold_set, ps)
    IN  [sell |-> SortBySellValueDesc(acc.sell_recs),
         recycle |-> SortByMarginAsc(acc.recycle_recs),
         hold |-> SortByName(acc.hold_recs),
         total_sell_value |-> acc.total_sell_value,
         total_recycle_value |-> acc.total_recycle_value,
         total_hold_count |-> Cardinality(hold_set)]

\* lines 256-319
analyze_optimize(st, its, rtable, qs, ps) ==
    LET hold_set == HoldSetFor(qs, its, ps)
        acc == OptimizeLoop(st, Len(st), its, rtable, hold_set, ps)
        hold_recs == SortByName(acc.hold_recs)
    IN  [sell |-> SortBySellValueDesc(acc.sell_recs),
         recycle |-> SortByMarginAsc(acc.recycle_recs),
         hold |-> hold_recs,
         total_sell_value |-> acc.total_sell_value,
         total_recycle_value |-> acc.total_recycle_value,
         total_hold_count |-> Len(hold_recs)]

(***************************************************************************)
(* _resolve_item_by_name, _build_reverse_recycle_map, find_recycle_sources *)
(*                                                                         *)
(* A dict iterates in insertion order: `order` is the sequence of the      *)
(* catalog's keys in that order.  An Item is named by its key (client.py   *)
(* line 166 builds the catalog as items[item.id] = item).                  *)
(***************************************************************************)
\* what str.strip() removes: ASCII whitespace
Whitespace == {9, 10, 11, 12, 13, 32}

\* mutant of Strip: the query is not trimmed
StripNothing(s) == s

\* line 336: str.strip()
Strip(s) ==
    LET kept == {k \in 1..Len(s) : s[k] \notin Whitespace}
    IN  IF kept = {} THEN <<>>
        ELSE SubSeq(s, CHOOSE k \in kept : \A j \in kept : k <= j,
                       CHOOSE k \in kept : \A j \in kept : k >= j)

\* the absent target (None)
None == "None"

\* the id of an item as a string
IdName(item_id) ==
    IF item_id = "a" THEN <<97>>
    ELSE IF item_id = "b" THEN <<98>>
    ELSE IF item_id = "c" THEN <<99>>
    ELSE <<100>>

\* line 351: matches.sort(key=len(name.get("en", "")))
SortByNameLength(ids, its) ==
    StableSort(ids, {p \in Pairs(ids) :
        Len(En(its[ids[p[1]]].name, <<>>)) < Len(En(its[ids[p[2]]].name, <<>>))})

\* lines 322-354: the id of the matched item, or None
_resolve_item_by_name(query, its, order) ==
    LET query_lower == Strip(Lower(query))
        Exact(item_id) == Lower(En(its[item_id].name, <<>>)) = query_lower
        Contains(item_id) == IsSubstring(query_lower, Lower(En(its[item_id].name, <<>>)))
        exact == SelectSeq(order, Exact)
        matches == SelectSeq(order, Contains)
    IN  IF query_lower = <<>> THEN None
        ELSE IF exact # <<>> THEN exact[1]
        ELSE IF matches # <<>> THEN SortByNameLength(matches, its)[1]
        ELSE None

\* lines 371-374: reverse[mat_id], the (item_id, qty) pairs in catalog order
Producers(mat_id, its, order) ==
    LET Makes(item_id) == mat_id \in DOMAIN its[item_id].recycles_into
        makers == SelectSeq(order, Makes)
    IN  [k \in 1..Len(makers) |->
            [item_id |-> makers[k], qty |-> its[makers[k]].recycles_into[mat_id]]]

\* lines 357-375: material id -> the items that recycle into it
_build_reverse_recycle_map(its, order) ==
    [mat_id \in UNION {DOMAIN its[i].recycles_into : i \in DOMAIN its}
        |-> Producers(mat_id, its, order)]

\* sources[item_id] of the ordered dict `sources`
SourceOf(sources, item_id) ==
    sources[CHOOSE k \in 1..Len(sources) : sources[k].item_id = item_id]

RECURSIVE VisitLastWins(_, _, _, _, _)
\* mutant of Visit: a source that is discovered again takes the yield and the
\* chain of the later discovery
VisitLastWins(st, producers, current_yield, current_chain, its) ==
    IF producers = <<>> THEN st
    ELSE LET source_id == Head(producers).item_id
             qty == Head(producers).qty
             known == {k \in 1..Len(st.sources) : st.sources[k].item_id = source_id}
             source_name == En(its[source_id].name, IdName(source_id))
             found == [item_id |-> source_id,
                       yield_per_unit |-> qty * current_yield,
                       chain |-> <<source_name>> \o current_chain]
         IN  IF source_id \notin DOMAIN its \/ (source_id \in st.visited /\ known = {})
             THEN VisitLastWins(st, Tail(producers), current_yield, current_chain, its)
             ELSE IF known # {}
             THEN VisitLastWins([st EXCEPT !.sources =
                                    [k \in 1..Len(@) |-> IF k \in known THEN found ELSE @[k]]],
                                Tail(producers), current_yield, current_chain, its)
             ELSE VisitLastWins([visited |-> st.visited \cup {source_id},
                                 sources |-> Append(st.sources, found),
                                 queue |-> Append(st.queue,
                                             [item_id |-> source_id,
                                              yield |-> qty * current_yield])],
                                Tail(producers), current_yield, current_chain, its)

RECURSIVE Visit(_, _, _, _, _)
\* lines 414-421 and 428-436: one pass over reverse.get(current_id, []); the
\* seed pass is the pass for the target with yield qty and chain
\* [source_name, target_name]
Visit(st, producers, current_yield, current_chain, its) ==
    IF producers = <<>> THEN st
    ELSE LET source_id == Head(producers).item_id
             qty == Head(producers).qty
         IN  IF source_id \in st.visited \/ source_id \notin DOMAIN its
             THEN Visit(st, Tail(producers), current_yield, current_chain, its)
             ELSE LET source_name == En(its[source_id].name, IdName(source_id))
                      new_yield == qty * current_yield
                      new_chain == <<source_name>> \o current_chain
                  IN  Visit([visited |-> st.visited \cup {source_id},
                             sources |-> Append(st.sources,
                                            [item_id |-> source_id,
                                             yield_per_unit |-> new_yield,
                                             chain |-> new_chain]),
                             queue |-> Append(st.queue,
                                            [item_id |-> source_id,
                                             yield |-> new_yield])],
                            Tail(producers), current_yield, current_chain, its)

\* mutant of Expand: only the direct sources are kept
ExpandNothing(st, reverse, its) == st

RECURSIVE Expand(_, _, _)
\* lines 424-436: the breadth-first loop over the queue
Expand(st, reverse, its) ==
    IF st.queue = <<>> THEN st
    ELSE LET current == Head(st.queue)
             current_chain == SourceOf(st.sources, current.item_id).chain
         IN  Expand(Visit([st EXCEPT !.queue = Tail(@)],
                          DictGet(reverse, current.item_id, <<>>),
                          current.yield, current_chain, its),
                    reverse, its)

\* mutant of StashMap: the first stack of an id is kept
StashMapFirst(st) ==
    [item_id \in {st[k].item_id : k \in 1..Len(st)} |->
        st[CHOOSE k \in 1..Len(st) :
              /\ st[k].item_id = item_id
              /\ \A j \in 1..Len(st) : st[j].item_id = item_id => j >= k]]

\* line 439: {s.item_id: s for s in stash}, a later stack replaces an earlier
StashMap(st) ==
    [item_id \in {st[k].item_id : k \in 1..Len(st)} |->
        st[CHOOSE k \in 1..Len(st) :
              /\ st[k].item_id = item_id
              /\ \A j \in 1..Len(st) : st[j].item_id = item_id => j <= k]]

\* lines 446-455
RecycleSource(source, si, its) ==
    [item_id |-> source.item_id,
     name |-> En(its[source.item_id].name, si.name),
     quantity |-> si.quantity,
     yield_per_unit |-> source.yield_per_unit,
     total_yield |-> source.yield_per_unit * si.quantity,
     depth |-> Len(source.chain) - 1,
     chain |-> source.chain]

\* mutant of SortByTotalYieldDesc: the sort is ascending
SortByTotalYieldAsc(rows) ==
    StableSort(rows, {p \in Pairs(rows) : rows[p[1]].total_yield < rows[p[2]].total_yield})

\* line 457: sort(key=total_yield, reverse=True)
SortByTotalYieldDesc(rows) ==
    StableSort(rows, {p \in Pairs(rows) : rows[p[1]].total_yield > rows[p[2]].total_yield})

\* mutant of InitialVisited: the target is not marked as visited
InitialVisitedEmpty(target_id) == {}

\* line 410: visited = {target_id}
InitialVisited(target_id) == {target_id}

\* lines 404-421: the search state once the direct producers are seeded
Seeded(target_id, reverse, its) ==
    LET target_name == En(its[target_id].name, IdName(target_id))
    IN  Visit([visited |-> InitialVisited(target_id), sources |-> <<>>, queue |-> <<>>],
              DictGet(reverse, target_id, <<>>), 1, <<target_name>>, its)

\* lines 439-457: the rows of the sources that are in the stash, sorted
SourceRows(sources, st, its) ==
    LET stash_map == StashMap(st)
        InStash(source) == source.item_id \in DOMAIN stash_map
        found == SelectSeq(sources, InStash)
        results == [k \in 1..Len(found) |->
                      RecycleSource(found[k], stash_map[found[k].item_id], its)]
    IN  SortByTotalYieldDesc(results)

\* lines 378-458
find_recycle_sources(query, st, its, order) ==
    LET target_id == _resolve_item_by_name(query, its, order)
        reverse == _build_reverse_recycle_map(its, order)
        sources == Expand(Seeded(target_id, reverse, its), reverse, its).sources
    IN  IF target_id = None
        THEN [target |-> None, sources |-> <<>>]
        ELSE [target |-> target_id, sources |-> SourceRows(sources, st, its)]

(***************************************************************************)
(* Inputs of the analyzers                                                 *)
(***************************************************************************)
\* the catalog keys of the analyzer models; a stash entry or a quest may also
\* name "c", which is in none of these catalogs
CatalogIds == {"a", "b"}

\* display names: "Ab", "b", "B", and the stash's own name "s"
NameAb == <<65, 98>>

NameLowerB == <<98>>

NameUpperB == <<66>>

StashName == <<115>>

English(text) == [en |-> text]

\* longest stash
MaxStash == 2

\* stacks of a catalog id in either quantity, and one stack of "c"
StashEntries ==
    [item_id : CatalogIds, name : {StashName}, quantity : Qtys]
        \cup {[item_id |-> "c", name |-> StashName, quantity |-> 1]}

Stashes == UNION {[1..n -> StashEntries] : n \in 0..MaxStash}

\* deep recycle tables handed to the analyzers: any keys, values 1 or 3
RecycleTables == UNION {[D -> {1, 3}] : D \in SUBSET CatalogIds}

\* the two catalog namings: ("Ab", "b"), and (no English name, "B")
Namings ==
    {[a |-> English(NameAb), b |-> English(NameLowerB)],
     [a |-> NoName, b |-> English(NameUpperB)]}

\* catalogs of the classifier model: values 0..2, an item recycles or not
ClassifyCatalogs ==
    {[i \in CatalogIds |->
        [value |-> v[i], recycles_into |-> r[i], name |-> English(NameAb)]]
     : v \in [CatalogIds -> 0..2], r \in [CatalogIds -> {EmptyDict, [c |-> 1]}]}

\* catalogs of the optimizer model: values 0..2, either naming
OptimizeCatalogs ==
    {[i \in CatalogIds |->
        [value |-> v[i], recycles_into |-> EmptyDict, name |-> n[i]]]
     : v \in [CatalogIds -> 0..2], n \in Namings}

ItemQty(item_id) == [item_id |-> item_id, quantity |-> 1]

Quest(objectives, reward_item_ids, granted_item_ids) ==
    [objectives |-> objectives, reward_item_ids |-> reward_item_ids,
     granted_item_ids |-> granted_item_ids]

\* quest catalogs of the optimizer model: none, a quest that rewards "a" and
\* grants "c", a quest whose objective text is "xAB"
OptimizeQuests ==
    {EmptyDict,
     <<Quest(<<>>, <<ItemQty("a")>>, <<ItemQty("c")>>)>>,
     <<Quest(<<English(<<120, 65, 66>>)>>, <<>>, <<>>)>>}

\* params of the optimizer model: quest_aware either way, threshold 0 or 2,
\* the two reserved flags both off (the defaults) or both on
OptimizeParamsSet ==
    {[quest_aware |-> qa, min_profit_threshold |-> t,
      include_hideout |-> f, include_projects |-> f]
     : qa \in BOOLEAN, t \in {0, 2}, f \in BOOLEAN}

(***************************************************************************)
(* The analyzers as operations                                             *)
(***************************************************************************)
AnalyzeSell ==
    /\ pc = "ready"
    /\ result' = analyze_sell(stash, items, recycle_table)
    /\ pc' = "analyze_sell"
    /\ UNCHANGED <<inputs, search, resolver>>

AnalyzeRecycle ==
    /\ pc = "ready"
    /\ result' = analyze_recycle(stash, items, recycle_table)
    /\ pc' = "analyze_recycle"
    /\ UNCHANGED <<inputs, search, resolver>>

AnalyzeOptimize ==
    /\ pc = "ready"
    /\ result' = analyze_optimize(stash, items, recycle_table, quests, params)
    /\ pc' = "analyze_optimize"
    /\ UNCHANGED <<inputs, search, resolver>>

InitClassify ==
    /\ items \in ClassifyCatalogs
    /\ stash \in Stashes
    /\ recycle_table \in RecycleTables
    /\ quests = EmptyDict
    /\ params = DefaultParams
    /\ target_query = <<>>
    /\ ResolverStart
    /\ search = NoSearch
    /\ result = EmptyDict
    /\ pc = "ready"

NextClassify == AnalyzeSell \/ AnalyzeRecycle

SpecClassify == InitClassify /\ [][NextClassify]_vars

InitOptimize ==
    /\ items \in OptimizeCatalogs
    /\ stash \in Stashes
    /\ recycle_table \in RecycleTables
    /\ quests \in OptimizeQuests
    /\ params \in OptimizeParamsSet
    /\ target_query = <<>>
    /\ ResolverStart
    /\ search = NoSearch
    /\ result = EmptyDict
    /\ pc = "ready"

NextOptimize == AnalyzeOptimize

SpecOptimize == InitOptimize /\ [][NextOptimize]_vars

(***************************************************************************)
(* find_recycle_sources as an operation                                    *)
(***************************************************************************)
\* the insertion orders of a dict with key set S
Orders(S) ==
    {o \in [1..Cardinality(S) -> S] : \A j, k \in 1..Cardinality(S) : o[j] = o[k] => j = k}

NameLowerC == <<99>>
NameBab == <<98, 65, 98>>

\* display names of the recipe-graph inputs: all items named, or "a" without
\* an English name
FindNamings ==
    {[a |-> English(NameAb), b |-> English(NameUpperB), c |-> English(NameLowerC)],
     [a |-> NoName, b |-> English(NameUpperB), c |-> English(NameLowerC)]}

\* every recipe graph on the three items with at most MaxEdges entries (self
\* loops and cycles included)
FindCatalogs ==
    {cat \in [ItemIds -> [value : {1}, recycles_into : RecipeMaps,
                          name : {English(NameLowerC), English(NameUpperB),
                                  English(NameAb), NoName}]] :
        /\ EdgeCount(cat) <= MaxEdges
        /\ [i \in ItemIds |-> cat[i].name] \in FindNamings}

FindStashEntries ==
    {[item_id |-> "a", name |-> StashName, quantity |-> 1],
     [item_id |-> "a", name |-> StashName, quantity |-> 2],
     [item_id |-> "b", name |-> StashName, quantity |-> 2],
     [item_id |-> "c", name |-> StashName, quantity |-> 1]}

FindStashes == UNION {[1..n -> FindStashEntries] : n \in 0..MaxStash}

\* display names of the name-resolution inputs
ResolveNames == {NoName, English(NameAb), English(NameLowerB), English(NameUpperB),
                 English(NameBab)}

\* the chain a -> b -> c under every naming
ResolveCatalogs ==
    {[i \in ItemIds |->
        [value |-> 1,
         recycles_into |-> IF i = "a" THEN [b |-> 2]
                           ELSE IF i = "b" THEN [c |-> 1] ELSE EmptyDict,
         name |-> n[i]]] : n \in [ItemIds -> ResolveNames]}

NameLowerD == <<100>>

\* the diamond d -> a -> c, d -> b -> c with every choice of quantities: "d"
\* reaches the target "c" by two paths of two steps
DiamondCatalogs ==
    {[a |-> [value |-> 1, recycles_into |-> [c |-> q[3]], name |-> English(NameAb)],
      b |-> [value |-> 1, recycles_into |-> [c |-> q[4]], name |-> English(NameUpperB)],
      c |-> [value |-> 1, recycles_into |-> EmptyDict, name |-> English(NameLowerC)],
      d |-> [value |-> 1, recycles_into |-> [a |-> q[1], b |-> q[2]],
             name |-> English(NameLowerD)]]
     : q \in [1..4 -> Qtys]}

DiamondStashes ==
    {<<[item_id |-> "d", name |-> StashName, quantity |-> 1]>>,
     <<[item_id |-> "a", name |-> StashName, quantity |-> 1],
       [item_id |-> "d", name |-> StashName, quantity |-> 2]>>}

\* "", " ", "b", " B ", "aB", "z"
Queries == {<<>>, <<32>>, <<98>>, <<32, 66, 32>>, <<97, 66>>, <<122>>}

FindRecycleSources ==
    /\ pc = "ready"
    /\ \E order \in Orders(DOMAIN items) :
          result' = find_recycle_sources(target_query, stash, items, order)
    /\ pc' = "find_recycle_sources"
    /\ UNCHANGED <<inputs, search, resolver>>

InitFind ==
    /\ \/ /\ items \in FindCatalogs
          /\ stash \in FindStashes
          /\ target_query = NameLowerC
       \/ /\ items \in ResolveCatalogs
          /\ stash \in {<<>>, <<[item_id |-> "a", name |-> StashName, quantity |-> 1]>>}
          /\ target_query \in Queries
       \/ /\ items \in DiamondCatalogs
          /\ stash \in DiamondStashes
          /\ target_query = NameLowerC
    /\ recycle_table = EmptyDict
    /\ quests = EmptyDict
    /\ params = DefaultParams
    /\ ResolverStart
    /\ search = NoSearch
    /\ result = <<>>
    /\ pc = "ready"

NextFind == FindRecycleSources

SpecFind == InitFind /\ [][NextFind]_vars

(***************************************************************************)
(* find_recycle_sources step by step: one step per iteration of its        *)
(* `while queue` loop                                                      *)
(***************************************************************************)
\* lines 400-402: the query resolves to nothing
NoTarget ==
    /\ pc = "ready"
    /\ \E order \in Orders(DOMAIN items) :
          _resolve_item_by_name(target_query, items, order) = None
    /\ result' = [target |-> None, sources |-> <<>>]
    /\ pc' = "find_recycle_sources"
    /\ UNCHANGED <<inputs, search, resolver>>

\* lines 400-421: the target is resolved, the reverse map built and the
\* direct producers seeded
SeedSearch ==
    /\ pc = "ready"
    /\ \E order \in Orders(DOMAIN items) :
          LET target_id == _resolve_item_by_name(target_query, items, order)
              reverse == _build_reverse_recycle_map(items, order)
              seeded == Seeded(target_id, reverse, items)
          IN  /\ target_id # None
              /\ search' = [target_id |-> target_id, reverse |-> reverse,
                            visited |-> seeded.visited, sources |-> seeded.sources,
                            queue |-> seeded.queue]
    /\ pc' = "searching"
    /\ UNCHANGED <<inputs, resolver, result>>

\* lines 424-436: one iteration of `while queue`
SearchStep ==
    /\ pc = "searching"
    /\ search.queue # <<>>
    /\ LET current == Head(search.queue)
           current_chain == SourceOf(search.sources, current.item_id).chain
           st == Visit([visited |-> search.visited, sources |-> search.sources,
                        queue |-> Tail(search.queue)],
                       DictGet(search.reverse, current.item_id, <<>>),
                       current.yield, current_chain, items)
       IN  search' = [search EXCEPT !.visited = st.visited, !.sources = st.sources,
                                    !.queue = st.queue]
    /\ UNCHANGED <<inputs, resolver, result, pc>>

\* lines 438-458: the queue is empty: build, sort and return the rows
FinishSearch ==
    /\ pc = "searching"
    /\ search.queue = <<>>
    /\ result' = [target |-> search.target_id,
                  sources |-> SourceRows(search.sources, stash, items)]
    /\ pc' = "find_recycle_sources"
    /\ UNCHANGED <<inputs, search, resolver>>

\* stashes of the stepwise search: the target alone, next to a producer, or
\* two producers
SearchStashes ==
    {<<[item_id |-> "c", name |-> StashName, quantity |-> 1]>>,
     <<[item_id |-> "a", name |-> StashName, quantity |-> 2],
       [item_id |-> "c", name |-> StashName, quantity |-> 1]>>,
     <<[item_id |-> "b", name |-> StashName, quantity |-> 2],
       [item_id |-> "a", name |-> StashName, quantity |-> 1]>>}

\* the recipe graphs on the three items, every item named
SearchCatalogs == {cat \in FindCatalogs : \A i \in ItemIds : cat[i].name # NoName}

InitSearch ==
    /\ items \in SearchCatalogs
    /\ stash \in SearchStashes
    /\ target_query \in {NameLowerC, <<122>>}
    /\ recycle_table = EmptyDict
    /\ quests = EmptyDict
    /\ params = DefaultParams
    /\ ResolverStart
    /\ search = NoSearch
    /\ result = <<>>
    /\ pc = "ready"

NextSearch ==
    \/ NoTarget
    \/ SeedSearch
    \/ SearchStep
    \/ FinishSearch

\* the call is made and the running code takes its next step
SpecSearch == InitSearch /\ [][NextSearch]_vars /\ WF_vars(NextSearch)

(***************************************************************************)
(* Any one operation of the engine on the same inputs                      *)
(***************************************************************************)
\* catalogs with both kinds of recipe: "a" recycles into "b", or "b" into the
\* id "c" the catalog lacks; values 0..2; names "Ab" and "b"
EngineCatalogs ==
    {[i \in CatalogIds |->
        [value |-> v[i],
         recycles_into |-> IF i = maker
                           THEN (IF i = "a" THEN [b |-> 2] ELSE [c |-> 1])
                           ELSE EmptyDict,
         name |-> IF i = "a" THEN English(NameAb) ELSE English(NameLowerB)]]
     : v \in [CatalogIds -> 0..2], maker \in CatalogIds}

\* no quest, or a quest that rewards "a" and grants "c"
EngineQuests ==
    {EmptyDict, <<Quest(<<>>, <<ItemQty("a")>>, <<ItemQty("c")>>)>>}

\* quest_aware either way, threshold 0 or 2, the reserved flags off
EngineParams == {ps \in OptimizeParamsSet : ~ps.include_hideout}

InitEngine ==
    /\ items \in EngineCatalogs
    /\ stash \in Stashes
    /\ recycle_table \in RecycleTables
    /\ quests \in EngineQuests
    /\ params \in EngineParams
    /\ target_query = NameLowerB
    /\ ResolverStart
    /\ search = NoSearch
    /\ result = EmptyDict
    /\ pc = "ready"

NextEngine ==
    \/ AnalyzeSell
    \/ AnalyzeRecycle
    \/ AnalyzeOptimize
    \/ FindRecycleSources

SpecEngine == InitEngine /\ [][NextEngine]_vars

(***************************************************************************)
(* The weapon example: the table is built, then handed to analyze_sell     *)
(***************************************************************************)
ExampleIds == {"weapon", "mech_comp", "metal", "rubber"}

\* "Big Gun", "Mechanical Components", "Metal Parts", "Rubber Parts"
ExampleNames ==
    [weapon |-> English(<<66, 105, 103, 32, 71, 117, 110>>),
     mech_comp |-> English(<<77, 101, 99, 104, 97, 110, 105, 99, 97, 108, 32, 67, 111,
                                 109, 112, 111, 110, 101, 110, 116, 115>>),
     metal |-> English(<<77, 101, 116, 97, 108, 32, 80, 97, 114, 116, 115>>),
     rubber |-> English(<<82, 117, 98, 98, 101, 114, 32, 80, 97, 114, 116, 115>>)]

\* weapon -> 5 mech_comp, mech_comp -> 3 metal + 2 rubber
ExampleCatalog ==
    [weapon |-> [value |-> 5000, recycles_into |-> [mech_comp |-> 5],
                 name |-> ExampleNames.weapon],
     mech_comp |-> [value |-> 640, recycles_into |-> [metal |-> 3, rubber |-> 2],
                    name |-> ExampleNames.mech_comp],
     metal |-> [value |-> 75, recycles_into |-> EmptyDict, name |-> ExampleNames.metal],
     rubber |-> [value |-> 50, recycles_into |-> EmptyDict, name |-> ExampleNames.rubber]]

\* make_stash_item("weapon", quantity=1)
ExampleStash == <<[item_id |-> "weapon", name |-> <<>>, quantity |-> 1]>>

\* one stack of weapons, of either quantity
ExampleStashes == {<<[item_id |-> "weapon", name |-> <<>>, quantity |-> q]>> : q \in Qtys}

\* analyze_sell(stash, items, table) with the table just built
AnalyzeSellWithTable ==
    /\ pc = "done"
    /\ result' = analyze_sell(stash, items, table)
    /\ pc' = "analyze_sell"
    /\ UNCHANGED <<inputs, search, resolver>>

InitExample ==
    /\ items = ExampleCatalog
    /\ ResolverStart
    /\ search = NoSearch
    /\ stash \in ExampleStashes
    /\ recycle_table = EmptyDict
    /\ quests = EmptyDict
    /\ params = DefaultParams
    /\ target_query = <<>>
    /\ result = EmptyDict
    /\ pc = "resolving"

\* the catalog has no unknown material and nests three calls deep, below the
\* recursion limit
NextExample ==
    \/ \E m \in ExampleIds : MemoHit(m)
    \/ \E m \in ExampleIds : BaseCase(m)
    \/ \E m \in ExampleIds : Descend(m)
    \/ Complete
    \/ ReturnTable
    \/ AnalyzeSellWithTable

SpecExample == InitExample /\ [][NextExample]_vars

(***************************************************************************)
(* The analyzers on the table built from their own catalog                 *)
(***************************************************************************)
\* catalogs whose table the analyzers are handed: "a" recycles into nothing,
\* "b", or "b" and "c"; "b" into nothing or "c"; "c" is a base material of
\* value 1 or is missing from the catalog; values of "a" and "b" are 0..2
BuiltCatalogs ==
    {[i \in D |->
        [value |-> IF i = "c" THEN 1 ELSE v[i],
         recycles_into |-> IF i = "a" THEN ra ELSE IF i = "b" THEN rb ELSE EmptyDict,
         name |-> IF i = "a" THEN English(NameAb) ELSE English(NameLowerB)]]
     : D \in {CatalogIds, ItemIds},
       v \in [CatalogIds -> 0..2],
       ra \in {EmptyDict, [b |-> 1], [b |-> 2], [b |-> 1, c |-> 1]},
       rb \in {EmptyDict, [c |-> 2]}}

\* the defaults with quest_aware off, with quest_aware on, and with quest_aware
\* off and a threshold of 2
BuiltParams ==
    {[DefaultParams EXCEPT !.quest_aware = FALSE],
     DefaultParams,
     [DefaultParams EXCEPT !.quest_aware = FALSE, !.min_profit_threshold = 2]}

\* a quest that rewards "a"
BuiltQuests == <<Quest(<<>>, <<ItemQty("a")>>, <<>>)>>

\* _ensure_caches: the table just built becomes the recycle table that the
\* commands hand to the analyzers
EnsureCaches ==
    /\ pc = "done"
    /\ recycle_table' = table
    /\ pc' = "ready"
    /\ UNCHANGED <<items, stash, quests, params, target_query, search, resolver, result>>

InitBuilt ==
    /\ items \in BuiltCatalogs
    /\ ResolverStart
    /\ search = NoSearch
    /\ stash \in Stashes
    /\ recycle_table = EmptyDict
    /\ quests = BuiltQuests
    /\ params \in BuiltParams
    /\ target_query = <<>>
    /\ result = EmptyDict
    /\ pc = "resolving"

\* the catalogs have no cycle and nest three calls deep at most, below the
\* recursion limit
NextBuilt ==
    \/ \E m \in ItemIds : MemoHit(m)
    \/ \E m \in ItemIds : BaseCase(m)
    \/ \E m \in ItemIds : Descend(m)
    \/ \E m \in ItemIds : SkipUnknown(m)
    \/ Complete
    \/ ReturnTable
    \/ EnsureCaches
    \/ AnalyzeSell
    \/ AnalyzeRecycle
    \/ AnalyzeOptimize

SpecBuilt == InitBuilt /\ [][NextBuilt]_vars

(***************************************************************************)
(* _build_quest_hold_set as an operation                                   *)
(***************************************************************************)
\* most quests in a quest catalog
MaxQuests == 2

\* English names of the hold-set model: none, "", "Ab", "b"
HoldNames == {NoName, English(<<>>), English(NameAb), English(NameLowerB)}

HoldCatalogs ==
    {[i \in CatalogIds |-> [value |-> 1, recycles_into |-> EmptyDict, name |-> n[i]]]
     : n \in [CatalogIds -> HoldNames]}

\* objective texts: no English text, "", "xAB", "B", "a"
ObjectiveTexts ==
    {NoName, English(<<>>), English(<<120, 65, 66>>), English(NameUpperB),
     English(<<97>>)}

ObjectiveLists ==
    {<<>>} \cup {<<t>> : t \in ObjectiveTexts}
           \cup {<<English(<<97>>), English(NameUpperB)>>}

HoldQuests ==
    {Quest(o, r, g) :
        o \in ObjectiveLists,
        r \in {<<>>, <<ItemQty("c")>>, <<ItemQty("a"), ItemQty("c")>>},
        g \in {<<>>, <<ItemQty("b")>>}}

HoldQuestCatalogs == UNION {[1..n -> HoldQuests] : n \in 0..MaxQuests}

BuildQuestHoldSet ==
    /\ pc = "ready"
    /\ result' = _build_quest_hold_set(quests, items)
    /\ pc' = "_build_quest_hold_set"
    /\ UNCHANGED <<inputs, search, resolver>>

InitHold ==
    /\ items \in HoldCatalogs
    /\ quests \in HoldQuestCatalogs
    /\ stash = <<>>
    /\ recycle_table = EmptyDict
    /\ params = DefaultParams
    /\ target_query = <<>>
    /\ ResolverStart
    /\ search = NoSearch
    /\ result = EmptyDict
    /\ pc = "ready"

NextHold == BuildQuestHoldSet

SpecHold == InitHold /\ [][NextHold]_vars

(***************************************************************************)
(* Claims about build_deep_recycle_table                                   *)
(***************************************************************************)
\* materials of item i that are catalog items
KnownMats(cat, i) == DOMAIN cat[i].recycles_into \cap DOMAIN cat

RECURSIVE ReachableFrom(_, _)
\* the catalog items reachable from the set S by zero or more recycle steps
ReachableFrom(cat, S) ==
    LET more == S \cup UNION {KnownMats(cat, i) : i \in S}
    IN  IF more = S THEN S ELSE ReachableFrom(cat, more)

\* no catalog item recycles, directly or transitively, into itself
Acyclic(cat) ==
    \A i \in DOMAIN cat : i \notin ReachableFrom(cat, KnownMats(cat, i))

RECURSIVE Deep(_, _)
\* the recurrence of the valuation: 0 for an item with no materials, otherwise
\* the sum over its catalog-known materials of quantity * max(value, deep)
Deep(cat, i) ==
    IF DOMAIN cat[i].recycles_into = {} THEN 0
    ELSE SumOver([m \in KnownMats(cat, i) |->
                    cat[i].recycles_into[m] * Max(cat[m].value, Deep(cat, m))],
                 KnownMats(cat, i))

C2_KeysAreCatalogIds ==
    pc = "done" => DOMAIN table = DOMAIN items

\* a returned table for a catalog with a recipe that names an id outside it
C2_Witness ==
    /\ pc = "done"
    /\ \E i \in DOMAIN items : DOMAIN items[i].recycles_into \ DOMAIN items # {}
    /\ \E i \in DOMAIN items : DOMAIN items[i].recycles_into = {}

\* C3: build_deep_recycle_table never fails, whatever the recipes reference,
\* and _resolve never nests deeper than the number of catalog items.
C3_TotalAndDepthBounded ==
    /\ pc # "failed"
    /\ depth <= Cardinality(DOMAIN items)

\* the materials of the item that the catalog lacks
UnknownMats(cat, i) == DOMAIN cat[i].recycles_into \ DOMAIN cat

\* C13: in build_deep_recycle_table a material id that is in an item's
\* recycles_into but absent from the catalog contributes zero and raises no
\* error: the only failure is the recursion limit, and every value in the
\* table is the sum over the item's catalog-known materials alone of
\* quantity * max(value, table value), which is 0 when all are unknown.
C13_UnknownMaterialsAddNothing ==
    /\ pc = "failed" => depth > RecursionLimit
    /\ \A i \in DOMAIN table :
          /\ KnownMats(items, i) \subseteq DOMAIN table
          /\ table[i] = SumOver([m \in KnownMats(items, i) |->
                                   items[i].recycles_into[m]
                                     * Max(items[m].value, table[m])],
                                KnownMats(items, i))

\* the table is returned for a catalog where one item has a known and an
\* unknown material and is valued by the known one, and another has unknown
\* materials only and is valued 0
C13_Witness ==
    /\ pc = "done"
    /\ \E i \in DOMAIN items :
          /\ UnknownMats(items, i) # {}
          /\ KnownMats(items, i) # {}
          /\ table[i] > 0
    /\ \E i \in DOMAIN items :
          /\ UnknownMats(items, i) # {}
          /\ KnownMats(items, i) = {}
          /\ table[i] = 0

\* C24: build_deep_recycle_table is idempotent and deterministic: once a call
\* has returned a table, a second call on the same catalog, iterating over
\* items and materials in any order, does not fail, memoizes the same value
\* for every id and returns the same table.
C24_SecondCallSameTable ==
    result # <<>> =>
        /\ pc # "failed"
        /\ \A i \in DOMAIN table : table[i] = result[1][i]
        /\ pc = "done" => table = result[1]

\* the second call has returned a table in which an item with two materials,
\* summed in either order, has a positive value
C24_Witness ==
    /\ pc = "done"
    /\ result # <<>>
    /\ \E i \in DOMAIN table :
          /\ Cardinality(KnownMats(items, i)) = 2
          /\ table[i] > 0

(***************************************************************************)
(* Claims about analyze_optimize                                           *)
(***************************************************************************)
\* the stash entry's id is a catalog id
Known(e) == e.item_id \in DOMAIN items

\* the stack's sell value and recycle value, as the data model defines them
StackSell(e) == items[e.item_id].value * e.quantity

StackRecycle(e) ==
    (IF e.item_id \in DOMAIN recycle_table THEN recycle_table[e.item_id] ELSE 0)
        * e.quantity

\* the entry is quest-held: quest_aware is on and its id is in the hold set
QuestHeld(e) ==
    params.quest_aware /\ e.item_id \in _build_quest_hold_set(quests, items)

\* the entry's margin reaches the profit threshold
ReachesThreshold(e) ==
    Abs(StackSell(e) - StackRecycle(e)) >= params.min_profit_threshold

\* how many rows of the list are for this id and quantity
RowCount(rows, item_id, quantity) ==
    Cardinality({k \in 1..Len(rows) :
        rows[k].item_id = item_id /\ rows[k].quantity = quantity})

\* how many of the stash positions in S hold this id and quantity
StashCount(item_id, quantity, S) ==
    Cardinality({k \in S :
        stash[k].item_id = item_id /\ stash[k].quantity = quantity})

RowIds(rows) == {rows[k].item_id : k \in 1..Len(rows)}

Optimized == pc = "analyze_optimize"

AllRows == result.sell \o result.recycle \o result.hold

\* a stash entry qualifies: catalog-known, and quest-held or at the threshold
Qualifies(e) == Known(e) /\ (QuestHeld(e) \/ ReachesThreshold(e))

\* the stash positions of the qualifying entries
Qualifying == {k \in 1..Len(stash) : Qualifies(stash[k])}

\* C4: analyze_optimize partitions the stash: each stash entry that is
\* catalog-known and either quest-held or at least at the profit threshold has
\* exactly one row over the three lists together, every other entry has none
\* (counted per item id and quantity), so the number of rows is the number of
\* qualifying entries.
C4_Partition ==
    Optimized =>
        /\ \A i \in ItemIds, q \in Qtys :
              RowCount(AllRows, i, q) = StashCount(i, q, Qualifying)
        /\ Len(AllRows) = Cardinality(Qualifying)

\* a result with a row for a quest-held entry that is below the threshold,
\* next to an entry that is dropped
C4_Witness ==
    /\ Optimized
    /\ Len(stash) = 2
    /\ Len(result.hold) = 1
    /\ Len(AllRows) = 1
    /\ \E k \in 1..2 : QuestHeld(stash[k]) /\ Known(stash[k]) /\ ~ReachesThreshold(stash[k])
    /\ \E k \in 1..2 : Known(stash[k]) /\ ~Qualifies(stash[k])

\* C5: no item id is in more than one of the sell, recycle and hold lists.
C5_ListsDisjoint ==
    Optimized =>
        /\ RowIds(result.sell) \cap RowIds(result.recycle) = {}
        /\ RowIds(result.sell) \cap RowIds(result.hold) = {}
        /\ RowIds(result.recycle) \cap RowIds(result.hold) = {}

\* two stacks of one item id with different quantities, both with a row, and
\* the recycle list holds them
C5_Witness ==
    /\ Optimized
    /\ Len(stash) = 2
    /\ stash[1].item_id = stash[2].item_id
    /\ stash[1].quantity # stash[2].quantity
    /\ Len(result.recycle) = 2

\* C6 as stated: a stash entry whose margin is below the threshold has no row
\* in any of the three lists.
C6_Original ==
    Optimized =>
        \A k \in 1..Len(stash) :
            (Known(stash[k]) /\ ~ReachesThreshold(stash[k])) =>
                RowCount(AllRows, stash[k].item_id, stash[k].quantity) = 0

\* C6: a stash entry that is not quest-held and whose margin is below the
\* threshold has no row in any of the three lists.
C6_ThresholdExclusion ==
    Optimized =>
        \A k \in 1..Len(stash) :
            (Known(stash[k]) /\ ~QuestHeld(stash[k]) /\ ~ReachesThreshold(stash[k])) =>
                RowCount(AllRows, stash[k].item_id, stash[k].quantity) = 0

\* an entry with a non-zero margin below the threshold is dropped while the
\* other stack of the same item, at the threshold, has a row
C6_Witness ==
    /\ Optimized
    /\ Len(stash) = 2
    /\ stash[1].item_id = stash[2].item_id
    /\ Known(stash[1]) /\ ~QuestHeld(stash[1]) /\ ~ReachesThreshold(stash[1])
    /\ StackSell(stash[1]) # StackRecycle(stash[1])
    /\ Len(AllRows) = 1

\* the stack's values are equal
Tie(e) == StackSell(e) = StackRecycle(e)

\* the entry has a row in the sell list, with action sell, and its id is not
\* in the recycle list
ClassifiedSell(e) ==
    /\ \E k \in 1..Len(result.sell) :
          /\ result.sell[k].item_id = e.item_id
          /\ result.sell[k].quantity = e.quantity
          /\ result.sell[k].action = "sell"
    /\ e.item_id \notin RowIds(result.recycle)

\* C7 as stated: a catalog-known stash entry with equal sell and recycle value
\* is always classified sell.
C7_Original ==
    Optimized =>
        \A k \in 1..Len(stash) :
            (Known(stash[k]) /\ Tie(stash[k])) => ClassifiedSell(stash[k])

\* C7: a catalog-known stash entry with equal sell and recycle value is never
\* in recycle, and it is classified sell when it is not quest-held and
\* min_profit_threshold is at most 0 (so that a zero margin is not dropped).
C7_TieBreakSell ==
    Optimized =>
        \A k \in 1..Len(stash) :
            (Known(stash[k]) /\ Tie(stash[k])) =>
                /\ stash[k].item_id \notin RowIds(result.recycle)
                /\ (~QuestHeld(stash[k]) /\ params.min_profit_threshold <= 0)
                      => ClassifiedSell(stash[k])

\* a tie at a non-zero value, sold
C7_Witness ==
    /\ Optimized
    /\ Len(stash) = 1
    /\ Known(stash[1]) /\ Tie(stash[1]) /\ StackSell(stash[1]) > 0
    /\ Len(result.sell) = 1

\* C8: with quest_aware on, each catalog-known stash entry whose id is in the
\* hold set has its row in the hold list, with action hold, whatever the
\* threshold and its values; its id is in neither sell nor recycle.
C8_HeldBypassesThreshold ==
    (Optimized /\ params.quest_aware) =>
        \A k \in 1..Len(stash) :
            (Known(stash[k]) /\ stash[k].item_id \in _build_quest_hold_set(quests, items)) =>
                /\ RowCount(result.hold, stash[k].item_id, stash[k].quantity)
                     = StashCount(stash[k].item_id, stash[k].quantity, 1..Len(stash))
                /\ \A j \in 1..Len(result.hold) : result.hold[j].action = "hold"
                /\ stash[k].item_id \notin RowIds(result.sell) \cup RowIds(result.recycle)

\* a held entry whose margin is below the threshold, and one held through an
\* objective's text
C8_Witness ==
    /\ Optimized
    /\ params.quest_aware
    /\ Len(stash) = 2
    /\ Len(result.hold) = 2
    /\ \E k \in 1..2 : ~ReachesThreshold(stash[k])
    /\ \E k \in 1..2 : ReachesThreshold(stash[k]) /\ params.min_profit_threshold > 0
    /\ \A q \in DOMAIN quests : quests[q].reward_item_ids = <<>>

\* the sums of the rows' sell and recycle values
SumSellValue(rows) ==
    SumOver([k \in 1..Len(rows) |-> rows[k].sell_value], 1..Len(rows))

SumRecycleValue(rows) ==
    SumOver([k \in 1..Len(rows) |-> rows[k].recycle_value], 1..Len(rows))

\* C14: in an OptimizeResult total_sell_value is the sum of sell_value over
\* the sell rows, total_recycle_value the sum of recycle_value over the
\* recycle rows and total_hold_count the length of the hold list; held and
\* dropped items add nothing to the value totals.
C14_Totals ==
    Optimized =>
        /\ result.total_sell_value = SumSellValue(result.sell)
        /\ result.total_recycle_value = SumRecycleValue(result.recycle)
        /\ result.total_hold_count = Len(result.hold)

\* a sold stack next to a held stack that has a sell value of its own
C14_Witness ==
    /\ Optimized
    /\ Len(result.sell) = 1
    /\ Len(result.hold) = 1
    /\ result.hold[1].sell_value > 0
    /\ result.total_sell_value = result.sell[1].sell_value
    /\ result.total_sell_value > 0

(***************************************************************************)
(* Claims about _build_quest_hold_set                                      *)
(***************************************************************************)
QuestRefers(item_id) ==
    \E q \in DOMAIN quests :
        \/ \E k \in 1..Len(quests[q].reward_item_ids) :
              quests[q].reward_item_ids[k].item_id = item_id
        \/ \E k \in 1..Len(quests[q].granted_item_ids) :
              quests[q].granted_item_ids[k].item_id = item_id

\* the item has an English name which, lower-cased, is a substring of the
\* lower-cased English text of some objective
NameInObjective(item_id) ==
    /\ item_id \in DOMAIN items
    /\ "en" \in DOMAIN items[item_id].name
    /\ \E q \in DOMAIN quests : \E k \in 1..Len(quests[q].objectives) :
          /\ "en" \in DOMAIN quests[q].objectives[k]
          /\ IsSubstring(Lower(items[item_id].name.en),
                         Lower(quests[q].objectives[k].en))

HoldSetBuilt == pc = "_build_quest_hold_set"

\* C9 as stated: the hold set is exactly the reward ids, the granted ids and
\* the catalog items whose lower-cased English name is a substring of the
\* lower-cased English text of some objective.
C9_Original ==
    HoldSetBuilt =>
        \A i \in ItemIds : i \in result <=> (QuestRefers(i) \/ NameInObjective(i))

\* C9: the hold set is exactly the reward ids, the granted ids and the catalog
\* items whose lower-cased English name is not empty and is a substring of the
\* lower-cased English text of some objective.
C9_HoldSetIsUnion ==
    HoldSetBuilt =>
        /\ result \subseteq ItemIds
        /\ \A i \in ItemIds :
              i \in result <=>
                  \/ QuestRefers(i)
                  \/ (NameInObjective(i) /\ items[i].name.en # <<>>)

\* a hold set with an id that only an objective's text puts there (in another
\* letter case), built from a catalog with an empty name that stays out
C9_Witness ==
    /\ HoldSetBuilt
    /\ \E i \in result : ~QuestRefers(i) /\ items[i].name = English(NameAb)
    /\ \E i \in DOMAIN items :
          i \notin result /\ items[i].name = English(<<>>) /\ NameInObjective(i)

(***************************************************************************)
(* Claims about analyze_sell                                               *)
(***************************************************************************)
\* the entry is what analyze_sell is to report: catalog-known, of positive
\* value, and worth more sold than recycled
SellWins(e) ==
    /\ Known(e)
    /\ items[e.item_id].value > 0
    /\ StackSell(e) > StackRecycle(e)

\* C10: analyze_sell returns a row for a stash entry if and only if its id is
\* in the catalog, the catalog value is positive and sell_value exceeds
\* recycle_value (counted per item id and quantity); every row has action sell.
C10_SellRows ==
    pc = "analyze_sell" =>
        /\ \A i \in ItemIds, q \in Qtys :
              RowCount(result, i, q)
                = StashCount(i, q, {k \in 1..Len(stash) : SellWins(stash[k])})
        /\ \A k \in 1..Len(result) : result[k].action = "sell"

\* a row for a stack that sells for more, none for a tie at a positive value
C10_Witness ==
    /\ pc = "analyze_sell"
    /\ Len(stash) = 2
    /\ Len(result) = 1
    /\ \E k \in 1..2 : Known(stash[k]) /\ Tie(stash[k]) /\ StackSell(stash[k]) > 0

(***************************************************************************)
(* Claims about analyze_recycle                                            *)
(***************************************************************************)
\* the entry is what analyze_recycle is to report: catalog-known, with a
\* recipe, and worth more recycled than sold
RecycleWins(e) ==
    /\ Known(e)
    /\ DOMAIN items[e.item_id].recycles_into # {}
    /\ StackRecycle(e) > StackSell(e)

\* C11: analyze_recycle returns a row for a stash entry if and only if its id
\* is in the catalog, the item's recycles_into is non-empty and recycle_value
\* exceeds sell_value (counted per item id and quantity); every row has
\* action recycle.
C11_RecycleRows ==
    pc = "analyze_recycle" =>
        /\ \A i \in ItemIds, q \in Qtys :
              RowCount(result, i, q)
                = StashCount(i, q, {k \in 1..Len(stash) : RecycleWins(stash[k])})
        /\ \A k \in 1..Len(result) : result[k].action = "recycle"

\* a row for a stack with a recipe, none for a stack that would recycle for
\* more by the table but has no recipe
C11_Witness ==
    /\ pc = "analyze_recycle"
    /\ Len(stash) = 2
    /\ Len(result) = 1
    /\ \E k \in 1..2 :
          /\ Known(stash[k])
          /\ DOMAIN items[stash[k].item_id].recycles_into = {}
          /\ StackRecycle(stash[k]) > StackSell(stash[k])

(***************************************************************************)
(* Claims about find_recycle_sources                                       *)
(***************************************************************************)
Found == pc = "find_recycle_sources"

\* the two strings are equal up to the case of their letters
EqualIgnoringCase(s, t) ==
    /\ Len(s) = Len(t)
    /\ \A k \in 1..Len(s) :
          \/ s[k] = t[k]
          \/ s[k] \in 65..90 /\ t[k] = s[k] + 32
          \/ t[k] \in 65..90 /\ s[k] = t[k] + 32

\* t is s without its leading and trailing blanks
IsTrimOf(t, s) ==
    \E i \in 1..Len(s) + 1, j \in 0..Len(s) :
        /\ t = SubSeq(s, i, j)
        /\ \A k \in 1..Len(s) : (k < i \/ k > j) => s[k] = 32
        /\ t # <<>> => s[i] # 32 /\ s[j] # 32

TrimmedQuery == CHOOSE t \in {SubSeq(target_query, i, j) :
                                i \in 1..Len(target_query) + 1, j \in 0..Len(target_query)} :
                    IsTrimOf(t, target_query)

\* the English display name of a catalog item, "" when it has none
DisplayName(item_id) ==
    IF "en" \in DOMAIN items[item_id].name THEN items[item_id].name.en ELSE <<>>

\* items whose name is the trimmed query, case ignored
ExactMatches ==
    {i \in DOMAIN items : EqualIgnoringCase(DisplayName(i), TrimmedQuery)}

\* items whose name contains the trimmed query, case ignored
SubstringMatches ==
    {i \in DOMAIN items :
        \E o \in 1..Len(DisplayName(i)) :
            /\ o + Len(TrimmedQuery) - 1 <= Len(DisplayName(i))
            /\ EqualIgnoringCase(SubSeq(DisplayName(i), o, o + Len(TrimmedQuery) - 1),
                                 TrimmedQuery)}

NothingFound == result = [target |-> None, sources |-> <<>>]

\* C17: the target of find_recycle_sources is resolved from the trimmed,
\* case-insensitive query: an item whose English name equals the query is
\* taken first, otherwise a substring match with the shortest display name;
\* an empty or blank query, or one nothing matches, gives (None, []).
C17_TargetResolution ==
    Found =>
        /\ TrimmedQuery = <<>> => NothingFound
        /\ TrimmedQuery # <<>> /\ ExactMatches # {} => result.target \in ExactMatches
        /\ TrimmedQuery # <<>> /\ ExactMatches = {} /\ SubstringMatches # {} =>
              /\ result.target \in SubstringMatches
              /\ \A i \in SubstringMatches :
                    Len(DisplayName(result.target)) <= Len(DisplayName(i))
        /\ TrimmedQuery # <<>> /\ SubstringMatches = {} => NothingFound

\* the query " B " has no exact match and picks "Ab" over the longer "bAb"
C17_Witness ==
    /\ Found
    /\ target_query = <<32, 66, 32>>
    /\ ExactMatches = {}
    /\ Cardinality({DisplayName(i) : i \in SubstringMatches}) = 2
    /\ result.target # None
    /\ DisplayName(result.target) = NameAb

\* the item reaches the target by one or more recycles_into steps
Reaches(item_id) ==
    result.target \in ReachableFrom(items, KnownMats(items, item_id))

StashIds == {stash[k].item_id : k \in 1..Len(stash)}

SourceIds == RowIds(result.sources)

\* C18 as stated: the result's item ids are exactly the stash item ids from
\* which the target is reachable by one or more recycles_into steps.
C18_Original ==
    Found /\ result.target # None =>
        SourceIds = {i \in StashIds \cap DOMAIN items : Reaches(i)}

\* C18: when the query resolves, the item ids of the result are exactly the
\* stash item ids, other than the target's own, from which the target is
\* reachable by one or more recycles_into steps: none missing, none extra.
C18_SourcesAreReachers ==
    Found /\ result.target # None =>
        SourceIds = {i \in (StashIds \cap DOMAIN items) \ {result.target} : Reaches(i)}

\* the target lies on a recycle cycle and is in the stash, yet only the other
\* stack, two steps away from the target, is reported
C18_Witness ==
    /\ Found
    /\ result.target # None
    /\ result.target \in StashIds
    /\ Reaches(result.target)
    /\ Len(result.sources) = 1
    /\ result.sources[1].depth = 2

\* the name a chain shows for a catalog item: its English name, or its id
ChainName(item_id) ==
    IF "en" \in DOMAIN items[item_id].name THEN items[item_id].name.en
    ELSE IdName(item_id)

\* the id paths of two or more catalog items
Paths == UNION {[1..n -> DOMAIN items] : n \in 2..Cardinality(DOMAIN items)}

\* every step of the path is a recycles_into entry
Linked(path) ==
    \A k \in 1..Len(path) - 1 : path[k + 1] \in DOMAIN items[path[k]].recycles_into

RECURSIVE PathYield(_)
\* the product of the quantities along the path
PathYield(path) ==
    IF Len(path) < 2 THEN 1
    ELSE items[path[1]].recycles_into[path[2]] * PathYield(Tail(path))

\* the chain of the row names a recycle path from the row's item to the
\* target, and the row's yield is the product of the quantities along it
ChainIsPath(row) ==
    \E path \in Paths :
        /\ Len(path) = Len(row.chain)
        /\ path[1] = row.item_id
        /\ path[Len(path)] = result.target
        /\ Linked(path)
        /\ \A k \in 1..Len(path) : row.chain[k] = ChainName(path[k])
        /\ row.yield_per_unit = PathYield(path)

\* C19: every RecycleSource is internally consistent: its chain starts with
\* the source's name and ends with the target's name, consecutive chain
\* elements are linked by recycles_into entries, yield_per_unit is the product
\* of the quantities along the chain, depth is the chain length minus one and
\* total_yield is yield_per_unit times the quantity.
C19_SourceConsistent ==
    Found =>
        \A k \in 1..Len(result.sources) :
            LET row == result.sources[k]
            IN  /\ row.chain[1] = row.name
                /\ row.chain[Len(row.chain)] = DisplayName(result.target)
                /\ ChainIsPath(row)
                /\ row.depth = Len(row.chain) - 1
                /\ row.total_yield = row.yield_per_unit * row.quantity

(***************************************************************************)
(* Claims about all four operations                                        *)
(***************************************************************************)
\* the stash without the entries whose id the catalog lacks
KnownStash == SelectSeq(stash, Known)

\* C12: a stash entry whose item_id is absent from the catalog contributes no
\* row to analyze_sell, analyze_recycle, analyze_optimize (sell, recycle, hold
\* and the totals) or find_recycle_sources, even when its id is in the quest
\* hold set: every result has catalog ids only and is the result for the
\* stash without such entries.
C12_UnknownItemsIgnored ==
    /\ pc = "analyze_sell" =>
          /\ RowIds(result) \subseteq DOMAIN items
          /\ result = analyze_sell(KnownStash, items, recycle_table)
    /\ pc = "analyze_recycle" =>
          /\ RowIds(result) \subseteq DOMAIN items
          /\ result = analyze_recycle(KnownStash, items, recycle_table)
    /\ Optimized =>
          /\ RowIds(AllRows) \subseteq DOMAIN items
          /\ result = analyze_optimize(KnownStash, items, recycle_table, quests, params)
    /\ Found =>
          /\ RowIds(result.sources) \subseteq DOMAIN items
          /\ \E order \in Orders(DOMAIN items) :
                result = find_recycle_sources(target_query, KnownStash, items, order)

\* the optimizer has run on a stash with a stack of the unknown id "c", which
\* is in the hold set, next to a held stack of "a"
C12_Witness ==
    /\ Optimized
    /\ Len(stash) = 2
    /\ \E k \in 1..2 : ~Known(stash[k]) /\ stash[k].item_id \in HoldSetFor(quests, items, params)
    /\ Len(result.hold) = 1
    /\ result.total_hold_count = 1

\* the row is the recommendation for a stack of the stash, filed under action
RowOf(row, action) ==
    /\ row.item_id \in DOMAIN items
    /\ \E k \in 1..Len(stash) :
          /\ stash[k].item_id = row.item_id
          /\ stash[k].quantity = row.quantity
    /\ row.sell_value = items[row.item_id].value * row.quantity
    /\ row.recycle_value = DictGet(recycle_table, row.item_id, 0) * row.quantity
    /\ row.margin = row.sell_value - row.recycle_value
    /\ row.action = action

\* C15: every Recommendation row of analyze_sell, analyze_recycle and
\* analyze_optimize has the quantity of its stash stack, sell_value = catalog
\* value * quantity, recycle_value = table.get(item_id, 0) * quantity,
\* margin = sell_value - recycle_value, and the action that names its list.
C15_RowFields ==
    /\ pc = "analyze_sell" => \A k \in 1..Len(result) : RowOf(result[k], "sell")
    /\ pc = "analyze_recycle" => \A k \in 1..Len(result) : RowOf(result[k], "recycle")
    /\ Optimized =>
          /\ \A k \in 1..Len(result.sell) : RowOf(result.sell[k], "sell")
          /\ \A k \in 1..Len(result.recycle) : RowOf(result.recycle[k], "recycle")
          /\ \A k \in 1..Len(result.hold) : RowOf(result.hold[k], "hold")

\* the optimizer files a stack of two under recycle, with a negative margin,
\* next to a held stack
C15_Witness ==
    /\ Optimized
    /\ Len(result.recycle) = 1
    /\ result.recycle[1].quantity = 2
    /\ result.recycle[1].sell_value > 0
    /\ result.recycle[1].margin < 0
    /\ Len(result.hold) = 1

(***************************************************************************)
(* Claims about quest_aware                                                *)
(***************************************************************************)
\* stash positions whose stack is known, reaches the threshold and sells for
\* at least what it recycles for / recycles for more than it sells for
SellsByValue ==
    {k \in 1..Len(stash) :
        Known(stash[k]) /\ ReachesThreshold(stash[k])
          /\ StackSell(stash[k]) >= StackRecycle(stash[k])}

RecyclesByValue ==
    {k \in 1..Len(stash) :
        Known(stash[k]) /\ ReachesThreshold(stash[k])
          /\ StackRecycle(stash[k]) > StackSell(stash[k])}

\* C16: with params.quest_aware false no hold set is built: the hold list is
\* empty and total_hold_count is 0 for every stash and quest catalog, and
\* every item, quest-referenced or not, is classified by its values alone.
C16_QuestUnaware ==
    Optimized /\ ~params.quest_aware =>
        /\ result.hold = <<>>
        /\ result.total_hold_count = 0
        /\ \A i \in ItemIds, q \in Qtys :
              /\ RowCount(result.sell, i, q) = StashCount(i, q, SellsByValue)
              /\ RowCount(result.recycle, i, q) = StashCount(i, q, RecyclesByValue)

\* quest_aware is off, a quest refers to an item of the stash, and the item
\* is sold or recycled
C16_Witness ==
    /\ Optimized
    /\ ~params.quest_aware
    /\ \E k \in 1..Len(stash) :
          /\ Known(stash[k])
          /\ stash[k].item_id \in _build_quest_hold_set(quests, items)
          /\ stash[k].item_id \in RowIds(result.sell \o result.recycle)

(***************************************************************************)
(* Claims about the order of the lists                                     *)
(***************************************************************************)
\* no row of the list has a smaller sell_value than the row after it
SellValueNonIncreasing(rows) ==
    \A k \in 1..Len(rows) - 1 : rows[k].sell_value >= rows[k + 1].sell_value

\* C20: the list analyze_sell returns and the sell list of analyze_optimize
\* are each sorted by sell_value in non-increasing order.
C20_SellSorted ==
    /\ pc = "analyze_sell" => SellValueNonIncreasing(result)
    /\ Optimized => SellValueNonIncreasing(result.sell)

\* analyze_sell reports two stacks in the reverse of their stash order: the
\* second stack sells for more than the first
C20_Witness ==
    /\ pc = "analyze_sell"
    /\ Len(stash) = 2
    /\ Len(result) = 2
    /\ StackSell(stash[1]) < StackSell(stash[2])
    /\ result[1].sell_value > result[2].sell_value

\* no row of the list has a larger margin than the row after it
MarginNonDecreasing(rows) ==
    \A k \in 1..Len(rows) - 1 : rows[k].margin <= rows[k + 1].margin

\* C21: the list analyze_recycle returns and the recycle list of
\* analyze_optimize are each sorted by margin in non-decreasing order: the
\* stack where recycling wins by the largest amount comes first.
C21_RecycleSorted ==
    /\ pc = "analyze_recycle" =>
          /\ MarginNonDecreasing(result)
          /\ \A k \in 1..Len(result) : result[1].margin <= result[k].margin
    /\ Optimized =>
          /\ MarginNonDecreasing(result.recycle)
          /\ \A k \in 1..Len(result.recycle) :
                result.recycle[1].margin <= result.recycle[k].margin

\* the optimizer reports two recycled stacks in the reverse of their stash
\* order: recycling wins by more on the second stack
C21_Witness ==
    /\ Optimized
    /\ Len(stash) = 2
    /\ Len(result.recycle) = 2
    /\ StackSell(stash[1]) - StackRecycle(stash[1])
         > StackSell(stash[2]) - StackRecycle(stash[2])
    /\ result.recycle[1].margin < result.recycle[2].margin

\* C22: the list of sources find_recycle_sources returns is sorted by
\* total_yield in non-increasing order.
C22_SourcesSorted ==
    Found =>
        \A k \in 1..Len(result.sources) - 1 :
            result.sources[k].total_yield >= result.sources[k + 1].total_yield

\* a source two steps from the target, discovered after the direct source,
\* is listed before it because its total yield is larger
C22_Witness ==
    /\ Found
    /\ Len(result.sources) = 2
    /\ result.sources[1].depth = 2
    /\ result.sources[2].depth = 1
    /\ result.sources[1].total_yield > result.sources[2].total_yield

(***************************************************************************)
(* Claims that compare calls                                               *)
(***************************************************************************)
\* the params with the two reserved flags set to h and p
WithFlags(ps, h, p) == [ps EXCEPT !.include_hideout = h, !.include_projects = p]

C26_EmptyStash ==
    Optimized /\ stash = <<>> =>
        result = [sell |-> <<>>, recycle |-> <<>>, hold |-> <<>>,
                  total_sell_value |-> 0, total_recycle_value |-> 0,
                  total_hold_count |-> 0]

\* the optimizer has run on an empty stash, quest-aware, with a hold set that
\* is not empty and a positive threshold
C26_Witness ==
    /\ Optimized
    /\ stash = <<>>
    /\ HoldSetFor(quests, items, params) # {}
    /\ params.min_profit_threshold > 0
    /\ result.hold = <<>>
    /\ result.total_hold_count = 0

(***************************************************************************)
(* Claims about the breadth-first search of find_recycle_sources           *)
(***************************************************************************)
RECURSIVE Within(_)
\* the catalog items from which the target is at most n >= 1 recycle steps away
Within(n) ==
    IF n = 1 THEN {i \in DOMAIN items : result.target \in DOMAIN items[i].recycles_into}
    ELSE Within(n - 1)
           \cup {i \in DOMAIN items : KnownMats(items, i) \cap Within(n - 1) # {}}

\* the minimum number of recycle steps from the item to the target
StepsTo(item_id) ==
    CHOOSE n \in 1..Cardinality(DOMAIN items) :
        /\ item_id \in Within(n)
        /\ n > 1 => item_id \notin Within(n - 1)

\* the yields of the recycle paths of n steps from the item to the target
YieldsIn(item_id, n) ==
    {PathYield(path) : path \in {p \in Paths :
        /\ Len(p) = n + 1
        /\ p[1] = item_id
        /\ p[Len(p)] = result.target
        /\ Linked(p)}}

SearchSourceIds == {search.sources[k].item_id : k \in 1..Len(search.sources)}

\* C28: find_recycle_sources terminates for every catalog, recycle cycles and
\* self loops included, and the target is never a source of itself: not while
\* the search runs, and not in the result, even when it lies on a recycle
\* cycle and is in the stash.
C28_TerminatesWithoutTarget ==
    /\ <>Found
    /\ [](pc = "searching" => search.target_id \notin SearchSourceIds)
    /\ [](Found /\ result.target # None => result.target \notin SourceIds)

\* the search has returned for a target that lies on a recycle cycle and is in
\* the stash; the other stack of the stash is a source
C28_Witness ==
    /\ Found
    /\ search # NoSearch
    /\ result.target \in StashIds
    /\ Reaches(result.target)
    /\ Len(result.sources) = 1

(***************************************************************************)
(* Claims about stacks of the same item                                    *)
(***************************************************************************)
\* the position of the last stack of the id in the stash
LastStack(item_id) ==
    CHOOSE k \in 1..Len(stash) :
        /\ stash[k].item_id = item_id
        /\ \A j \in 1..Len(stash) : stash[j].item_id = item_id => j <= k

\* C29: find_recycle_sources returns at most one row per item id; the row's
\* quantity, and with it the total_yield, is that of the last stack of the id
\* in stash order, not the sum of its stacks.
C29_OneRowPerItem ==
    Found =>
        /\ \A j, k \in 1..Len(result.sources) :
              result.sources[j].item_id = result.sources[k].item_id => j = k
        /\ \A k \in 1..Len(result.sources) :
              LET row == result.sources[k]
              IN  /\ row.item_id \in StashIds
                  /\ row.quantity = stash[LastStack(row.item_id)].quantity
                  /\ row.total_yield
                       = row.yield_per_unit * stash[LastStack(row.item_id)].quantity

\* the stash holds a stack of two and then a stack of one of a producer: the
\* single row has quantity 1
C29_Witness ==
    /\ Found
    /\ Len(stash) = 2
    /\ stash[1].item_id = stash[2].item_id
    /\ stash[1].quantity = 2
    /\ stash[2].quantity = 1
    /\ Len(result.sources) = 1
    /\ result.sources[1].quantity = 1

(***************************************************************************)
(* Claims about the optimizer next to the two classifiers                  *)
(***************************************************************************)
\* the recycle table is the table build_deep_recycle_table returned for the
\* catalog
TableIsBuilt ==
    /\ stack = <<>>
    /\ pending = {}
    /\ recycle_table = table

\* every row of rows is a row of list
RowsIn(rows, list) ==
    \A k \in 1..Len(rows) : \E j \in 1..Len(list) : list[j] = rows[k]

\* C30: on the table built from the same catalog, with quest_aware false and a
\* threshold of 0, the recycle list of analyze_optimize is the list
\* analyze_recycle returns for the same stash, rows and order alike, and every
\* row of analyze_sell is in the sell list of analyze_optimize.
C30_OptimizeAgreesWithClassifiers ==
    (/\ pc = "analyze_optimize"
     /\ TableIsBuilt
     /\ ~params.quest_aware
     /\ params.min_profit_threshold = 0)
    => /\ result.recycle = analyze_recycle(stash, items, recycle_table)
       /\ RowsIn(analyze_sell(stash, items, recycle_table), result.sell)

\* a stash of two stacks, both better recycled, which the margin sort puts in
\* the other order
C30_Witness ==
    /\ pc = "analyze_optimize"
    /\ TableIsBuilt
    /\ ~params.quest_aware
    /\ params.min_profit_threshold = 0
    /\ Len(stash) = 2
    /\ Len(result.recycle) = 2
    /\ result.recycle[1].item_id = stash[2].item_id
    /\ result.recycle[1].margin < result.recycle[2].margin

====
